---- MODULE Spec2Model ----
(***************************************************************************)
(* B-tree of gabrielbergoc/btree: BTree (src/btree.py) over BTreeNode      *)
(* (src/btreenode.py).  Nodes are Python objects; they are modelled as an  *)
(* arena `heap` of node records addressed by identity (index), `root`      *)
(* being the identity of the tree's root node or NoNode for None.          *)
(***************************************************************************)
EXTENDS Integers, Sequences, FiniteSets, Bags, TLC

(* ------------------------------ bounds -------------------------------- *)

\* keys offered to insert and search are 1..MaxKey
MaxKey == 4
\* number of keys a run hands to the tree (constructor seed included)
MaxInserts == 6
\* long runs over few keys: 1..DeepMaxKey, up to DeepMaxInserts keys
DeepMaxKey == 2
DeepMaxInserts == 10
\* keys and children a node is given when its methods are called directly
MaxNodeLen == 2
\* keys of the parent in the trees mounted by hand for _split_child
MaxMountKeys == 2

Keys == 1..MaxKey
DeepKeys == 1..DeepMaxKey
\* degrees t the constructor is called with
Degrees == {2, 3}

(* ------------------------- Python values ------------------------------ *)

\* Python's None as a key; every real key is >= 1
None == 0
\* `root is None`
NoNode == 0

NoErr == "ok"

\* `a > b` / `a < b` between an int and None (or None and None) raises TypeError
Comparable(a, b) == a # None /\ b # None

\* list[i] is defined for -len <= i < len
PyIndexOK(s, i) == -Len(s) <= i /\ i < Len(s)
PyGet(s, i) == IF i >= 0 THEN s[i + 1] ELSE s[Len(s) + i + 1]

\* list.insert(i, x): negative i counts from the end, out-of-range i is clamped
PyInsertPos(s, i) ==
    IF i < 0 THEN (IF Len(s) + i < 0 THEN 0 ELSE Len(s) + i)
    ELSE (IF i > Len(s) THEN Len(s) ELSE i)
PyInsert(s, i, x) ==
    LET p == PyInsertPos(s, i)
    IN  SubSeq(s, 1, p) \o <<x>> \o SubSeq(s, p + 1, Len(s))

\* list[a:] and list[:b] for a, b >= 0
PySliceFrom(s, a) == SubSeq(s, a + 1, Len(s))
PySliceTo(s, b) == SubSeq(s, 1, IF b > Len(s) THEN Len(s) ELSE b)

\* truth value of a stored `_is_leaf`: True, False, or a bound method object
Truthy(v) == v # "False"

(* --------------------------- BTreeNode -------------------------------- *)

\* BTreeNode(*args, is_leaf=flag) dropping the flag: every node starts with the
\* default is_leaf=False
NewNodeDefaultFlag(args, flag) == [keys |-> args, children |-> <<>>, is_leaf |-> "False"]

\* BTreeNode(*args, is_leaf=flag)
NewNode(args, flag) == [keys |-> args, children |-> <<>>, is_leaf |-> flag]

n_keys(h, n) == Len(h[n].keys)
n_children(h, n) == Len(h[n].children)

\* BTreeNode.is_leaf is a method: calling it returns the stored flag
is_leaf_call(h, n) == h[n].is_leaf

\* the attribute reference `node.is_leaf` (no call) is the bound method itself
is_leaf_attr(h, n) == "method"

\* insert_key(key, i) without the `if key is None: raise TypeError` of lines 95-96
insert_key_unchecked(h, n, key, i) ==
    [heap |-> [h EXCEPT ![n].keys = PyInsert(@, i, key)], err |-> NoErr]

\* insert_key(key, i): TypeError on None, else list.insert
insert_key(h, n, key, i) ==
    IF key = None THEN [heap |-> h, err |-> "TypeError"]
    ELSE [heap |-> [h EXCEPT ![n].keys = PyInsert(@, i, key)], err |-> NoErr]

\* insert_key(key): append
append_key(h, n, key) ==
    IF key = None THEN [heap |-> h, err |-> "TypeError"]
    ELSE [heap |-> [h EXCEPT ![n].keys = Append(@, key)], err |-> NoErr]

\* insert_child(child, i) with a node (never None here)
insert_child(h, n, child, i) == [h EXCEPT ![n].children = PyInsert(@, i, child)]

\* insert_child(child): append
append_child(h, n, child) == [h EXCEPT ![n].children = Append(@, child)]

(* ------------------------------ state --------------------------------- *)

VARIABLES
    t,          \* BTree._t, fixed at construction
    heap,       \* every BTreeNode built so far, by identity
    root,       \* BTree._root: a node identity, or NoNode
    inserted,   \* bag of the keys handed to the tree (seed and insert calls)
    last        \* the last public call: its argument and how it ended

vars == <<t, heap, root, inserted, last>>

(* ----------------------------- BTree ---------------------------------- *)

min_keys == t - 1
max_keys == 2 * t - 1
min_children == t
max_children == 2 * t

\* is_full(node) comparing against max_keys + 1: a node counts as full one key late
is_full_one_late(h, n) == n_keys(h, n) = max_keys + 1

\* is_full(node)
is_full(h, n) == n_keys(h, n) = max_keys

NotFound == [found |-> FALSE, node |-> NoNode, idx |-> 0, err |-> NoErr]
Raised(e) == [found |-> FALSE, node |-> NoNode, idx |-> 0, err |-> e]

\* the scan `while i < node.n_keys and key > node.get_key(i): i += 1`
RECURSIVE search_scan(_, _, _)
search_scan(keys, key, i) ==
    IF ~(i < Len(keys)) THEN [i |-> i, err |-> NoErr]
    ELSE IF ~Comparable(key, PyGet(keys, i)) THEN [i |-> i, err |-> "TypeError"]
    ELSE IF key > PyGet(keys, i) THEN search_scan(keys, key, i + 1)
    ELSE [i |-> i, err |-> NoErr]

RECURSIVE _search(_, _, _)

\* _search with line 110's `key == node.get_key(i)` test left out: any slot the scan
\* stops at inside the node counts as a match
search_without_equality(h, key, node) ==
    IF key = None \/ node = NoNode THEN Raised("ValueError")
    ELSE LET sc == search_scan(h[node].keys, key, 0)
         IN  IF sc.err # NoErr THEN Raised(sc.err)
             ELSE IF sc.i < n_keys(h, node)
                  THEN [found |-> TRUE, node |-> node, idx |-> sc.i, err |-> NoErr]
             ELSE IF Truthy(is_leaf_attr(h, node)) THEN NotFound
             ELSE IF ~PyIndexOK(h[node].children, sc.i) THEN Raised("IndexError")
             ELSE _search(h, key, PyGet(h[node].children, sc.i))

\* _search(key, node)
_search(h, key, node) ==
    IF key = None \/ node = NoNode THEN Raised("ValueError")
    ELSE LET sc == search_scan(h[node].keys, key, 0)
         IN  IF sc.err # NoErr THEN Raised(sc.err)
             ELSE IF sc.i < n_keys(h, node) /\ key = PyGet(h[node].keys, sc.i)
                  THEN [found |-> TRUE, node |-> node, idx |-> sc.i, err |-> NoErr]
             ELSE IF Truthy(is_leaf_attr(h, node)) THEN NotFound
             ELSE IF ~PyIndexOK(h[node].children, sc.i) THEN Raised("IndexError")
             ELSE _search(h, key, PyGet(h[node].children, sc.i))

\* search(key) as the BTree class left in src/btreenode.py has it, without the
\* `if self._root is None: return None` of src/btree.py
search_without_root_check(h, r, key) == _search(h, key, r)

\* search(key)
search(h, r, key) == IF r = NoNode THEN NotFound ELSE _search(h, key, r)

Ended(h, e) == [heap |-> h, err |-> e]

\* lines 188-189 with the left node cut one key too late (child._keys[:self._t]):
\* the promoted median also stays in the left node
split_keys_keeping_median(h, child, new_child) ==
    [h EXCEPT ![new_child].keys = PySliceFrom(h[child].keys, t),
              ![child].keys = PySliceTo(h[child].keys, t)]

\* _split_child, lines 188-189: new_child._keys = child._keys[self._t:] and
\* child._keys = child._keys[:self._t - 1]
split_keys(h, child, new_child) ==
    [h EXCEPT ![new_child].keys = PySliceFrom(h[child].keys, t),
              ![child].keys = PySliceTo(h[child].keys, t - 1)]

\* _split_child, lines 191-193: `if not child.is_leaf:` hands the upper children over
split_children(h, child, new_child) ==
    IF ~Truthy(is_leaf_attr(h, child))
    THEN [h EXCEPT ![new_child].children = PySliceFrom(h[child].children, t),
                   ![child].children = PySliceTo(h[child].children, t)]
    ELSE h

\* _split_child, lines 188-193, once the median key is in the parent (`up`)
split_transfer(up, child, new_child) ==
    IF up.err # NoErr THEN up
    ELSE Ended(split_children(split_keys(up.heap, child, new_child), child, new_child),
               NoErr)

\* _split_child, line 187: node.insert_key(child.get_key(self._t - 1), i)
split_promote(h, node, child, new_child, i) ==
    IF ~PyIndexOK(h[child].keys, t - 1) THEN Ended(h, "IndexError")
    ELSE split_transfer(insert_key(h, node, PyGet(h[child].keys, t - 1), i),
                        child, new_child)

\* _split_child(node, i); a raise leaves the heap as mutated so far
_split_child(h, node, i) ==
    IF ~PyIndexOK(h[node].children, i) THEN Ended(h, "IndexError")
    ELSE \* new_child = BTreeNode(is_leaf=child.is_leaf); node.insert_child(new_child, i + 1)
         split_promote(
             insert_child(Append(h, NewNode(<<>>, is_leaf_attr(h, PyGet(h[node].children, i)))),
                          node, Len(h) + 1, i + 1),
             node, PyGet(h[node].children, i), Len(h) + 1, i)

\* the scan `while i >= 0 and node.get_key(i - 1) > key: i -= 1`
RECURSIVE insert_scan(_, _, _)
insert_scan(keys, key, i) ==
    IF ~(i >= 0) THEN [i |-> i, err |-> NoErr]
    ELSE IF ~PyIndexOK(keys, i - 1) THEN [i |-> i, err |-> "IndexError"]
    ELSE IF ~Comparable(PyGet(keys, i - 1), key) THEN [i |-> i, err |-> "TypeError"]
    ELSE IF PyGet(keys, i - 1) > key THEN insert_scan(keys, key, i - 1)
    ELSE [i |-> i, err |-> NoErr]

Target(h, c, e) == [heap |-> h, child |-> c, err |-> e]

\* _insert_non_full, lines 169-173, after the split (`sp`): `if node.get_key(i) < key:
\* i += 1`, then node.get_child(i)
child_after_split(sp, node, i, key) ==
    IF sp.err # NoErr THEN Target(sp.heap, NoNode, sp.err)
    ELSE IF ~PyIndexOK(sp.heap[node].keys, i) THEN Target(sp.heap, NoNode, "IndexError")
    ELSE IF ~Comparable(PyGet(sp.heap[node].keys, i), key)
    THEN Target(sp.heap, NoNode, "TypeError")
    ELSE IF PyGet(sp.heap[node].keys, i) < key
    THEN IF ~PyIndexOK(sp.heap[node].children, i + 1)
         THEN Target(sp.heap, NoNode, "IndexError")
         ELSE Target(sp.heap, PyGet(sp.heap[node].children, i + 1), NoErr)
    ELSE IF ~PyIndexOK(sp.heap[node].children, i)
         THEN Target(sp.heap, NoNode, "IndexError")
         ELSE Target(sp.heap, PyGet(sp.heap[node].children, i), NoErr)

\* _insert_non_full, lines 165-173: the child the key goes down into, a full
\* child being split first
target_child(h, node, i, key) ==
    IF ~PyIndexOK(h[node].children, i) THEN Target(h, NoNode, "IndexError")
    ELSE IF ~is_full(h, PyGet(h[node].children, i))
    THEN Target(h, PyGet(h[node].children, i), NoErr)
    ELSE child_after_split(_split_child(h, node, i), node, i, key)

\* _insert_non_full(node, key)
RECURSIVE _insert_non_full(_, _, _)

\* _insert_non_full, lines 158-173, with the insertion index found (`sc`)
insert_at(h, node, key, sc) ==
    IF sc.err # NoErr THEN Ended(h, sc.err)
    ELSE IF Truthy(is_leaf_attr(h, node)) THEN insert_key(h, node, key, sc.i)
    ELSE LET tc == target_child(h, node, sc.i, key)
         IN  IF tc.err # NoErr THEN Ended(tc.heap, tc.err)
             ELSE _insert_non_full(tc.heap, tc.child, key)

_insert_non_full(h, node, key) ==
    insert_at(h, node, key, insert_scan(h[node].keys, key, n_keys(h, node)))

Outcome(res, r) == [heap |-> res.heap, root |-> r, err |-> res.err]

\* insert, lines 139-141: split the old root under new_root, then insert the key
insert_split_root(sp, new_root, key) ==
    IF sp.err # NoErr THEN Outcome(sp, new_root)
    ELSE Outcome(_insert_non_full(sp.heap, new_root, key), new_root)

\* the key counts of the nodes _insert_non_full is entered with, from the call
\* _insert_non_full(node, key) on, in call order
RECURSIVE entered_from(_, _, _)

entered_below(h, node, key, sc) ==
    IF sc.err # NoErr \/ Truthy(is_leaf_attr(h, node)) THEN <<>>
    ELSE LET tc == target_child(h, node, sc.i, key)
         IN  IF tc.err # NoErr THEN <<>> ELSE entered_from(tc.heap, tc.child, key)

entered_from(h, node, key) ==
    <<n_keys(h, node)>>
        \o entered_below(h, node, key, insert_scan(h[node].keys, key, n_keys(h, node)))

entered_after_split(sp, new_root, key) ==
    IF sp.err # NoErr THEN <<>> ELSE entered_from(sp.heap, new_root, key)

\* the key counts of the nodes _insert_non_full is entered with during insert(key)
entered(h, r, key) ==
    IF r = NoNode THEN <<>>
    ELSE IF is_full(h, r)
    THEN entered_after_split(
             _split_child(append_child(Append(h, NewNode(<<>>, "False")), Len(h) + 1, r),
                          Len(h) + 1, 0),
             Len(h) + 1, key)
    ELSE entered_from(h, r, key)

\* insert(key) without lines 133-139: a full root is not split, the key goes
\* straight into it
insert_without_root_split(h, r, key) ==
    IF r = NoNode
    THEN [heap |-> Append(h, NewNode(<<key>>, "True")), root |-> Len(h) + 1, err |-> NoErr]
    ELSE Outcome(_insert_non_full(h, r, key), r)

\* insert(key): the heap and root reference it leaves, and how it ended
insert(h, r, key) ==
    IF r = NoNode
    THEN [heap |-> Append(h, NewNode(<<key>>, "True")), root |-> Len(h) + 1, err |-> NoErr]
    ELSE IF is_full(h, r)
    THEN \* new_root = BTreeNode(); new_root.insert_child(self._root)
         insert_split_root(
             _split_child(append_child(Append(h, NewNode(<<>>, "False")), Len(h) + 1, r),
                          Len(h) + 1, 0),
             Len(h) + 1, key)
    ELSE Outcome(_insert_non_full(h, r, key), r)

\* BTreeNode.in_order(f) from key index i on; `out` is what f has been given
RECURSIVE in_order_from(_, _, _, _)
in_order_from(h, n, i, out) ==
    IF i < n_keys(h, n)
    THEN IF ~Truthy(is_leaf_call(h, n))
         THEN IF ~PyIndexOK(h[n].children, i) THEN [out |-> out, err |-> "IndexError"]
              ELSE LET sub == in_order_from(h, PyGet(h[n].children, i), 0, out)
                   IN  IF sub.err # NoErr THEN sub
                       ELSE in_order_from(h, n, i + 1, Append(sub.out, PyGet(h[n].keys, i)))
         ELSE in_order_from(h, n, i + 1, Append(out, PyGet(h[n].keys, i)))
    ELSE IF ~Truthy(is_leaf_call(h, n))
         THEN IF ~PyIndexOK(h[n].children, -1) THEN [out |-> out, err |-> "IndexError"]
              ELSE in_order_from(h, PyGet(h[n].children, -1), 0, out)
         ELSE [out |-> out, err |-> NoErr]

\* BTreeNode.in_order(f)
in_order(h, n) == in_order_from(h, n, 0, <<>>)

(* ---------------------------- behaviour ------------------------------- *)

NoCall == [op |-> "init", key |-> None, err |-> NoErr,
           found |-> FALSE, node |-> NoNode, idx |-> 0, out |-> <<>>]

\* BTree(t, rootVal): rootVal None leaves the tree without a root
Init ==
    /\ t \in Degrees
    /\ \E rootVal \in Keys \cup {None} :
          IF rootVal = None
          THEN heap = <<>> /\ root = NoNode /\ inserted = EmptyBag
          ELSE /\ heap = <<NewNode(<<rootVal>>, "True")>>
               /\ root = 1
               /\ inserted = SetToBag({rootVal})
    /\ last = NoCall

\* tree.insert(key)
InsertCall(key) ==
    LET r == insert(heap, root, key)
    IN  /\ heap' = r.heap
        /\ root' = r.root
        /\ inserted' = IF r.err = NoErr THEN inserted (+) SetToBag({key}) ELSE inserted
        /\ last' = [NoCall EXCEPT !.op = "insert", !.key = key, !.err = r.err]
        /\ UNCHANGED t

Insert ==
    /\ BagCardinality(inserted) < MaxInserts
    /\ \E key \in Keys : InsertCall(key)

\* tree.search(key) opening with insert's lines 133-139: a full root is split and
\* replaced before the descent
SearchCallSplittingRoot(key) ==
    LET full == root # NoNode /\ is_full(heap, root)
        sp == _split_child(append_child(Append(heap, NewNode(<<>>, "False")),
                                        Len(heap) + 1, root),
                           Len(heap) + 1, 0)
        r == search(IF full THEN sp.heap ELSE heap,
                    IF full THEN Len(heap) + 1 ELSE root, key)
    IN  /\ heap' = IF full THEN sp.heap ELSE heap
        /\ root' = IF full THEN Len(heap) + 1 ELSE root
        /\ last' = [NoCall EXCEPT !.op = "search", !.key = key, !.err = r.err,
                                  !.found = r.found, !.node = r.node, !.idx = r.idx]
        /\ UNCHANGED <<t, inserted>>

\* tree.search(key)
SearchCall(key) ==
    LET r == search(heap, root, key)
    IN  /\ last' = [NoCall EXCEPT !.op = "search", !.key = key, !.err = r.err,
                                  !.found = r.found, !.node = r.node, !.idx = r.idx]
        /\ UNCHANGED <<t, heap, root, inserted>>

Search == \E key \in Keys : SearchCall(key)

\* tree.root.in_order(visit) on a tree that has a root
Traverse ==
    /\ root # NoNode
    /\ LET r == in_order(heap, root)
       IN  last' = [NoCall EXCEPT !.op = "in_order", !.err = r.err, !.out = r.out]
    /\ UNCHANGED <<t, heap, root, inserted>>

Next ==
    \/ Insert
    \/ Search
    \/ Traverse

Spec == Init /\ [][Next]_vars

(* ---- long runs over few keys, from an unseeded tree (second root split at t = 3) ---- *)

InitDeep == Init /\ root = NoNode

InsertDeep ==
    /\ BagCardinality(inserted) < DeepMaxInserts
    /\ \E key \in DeepKeys : InsertCall(key)

NextDeep ==
    \/ InsertDeep
    \/ Search
    \/ Traverse

SpecDeep == InitDeep /\ [][NextDeep]_vars

(* ---- the scripted runs of the test-suite and of the documented scenarios ---- *)

\* src/test_btree.py, test_insert, and src/btree.py's demo driver
Scenario1 == <<8, 9, 10, 11, 15, 16, 17, 18, 20, 23>>
\* the second documented scenario, for t = 3
Scenario2 == <<8, 9, 10, 11, 15, 20, 17>>
Scripts == {Scenario1, Scenario2}

Range(s) == {s[i] : i \in DOMAIN s}
SeqBag(s) == [k \in Range(s) |-> Cardinality({i \in DOMAIN s : s[i] = k})]

\* the keys of the scripts, and 12: never inserted, between the stored 11 and 15
ScriptProbes == Range(Scenario1) \cup Range(Scenario2) \cup {12}

InitScript == Init /\ root = NoNode

\* the next key of a script whose first n keys are the ones inserted so far
InsertScripted ==
    \E sc \in Scripts : \E n \in 0..(Len(sc) - 1) :
        /\ inserted = SeqBag(SubSeq(sc, 1, n))
        /\ InsertCall(sc[n + 1])

SearchScripted == \E key \in ScriptProbes : SearchCall(key)

NextScript ==
    \/ InsertScripted
    \/ SearchScripted
    \/ Traverse

SpecScript == InitScript /\ [][NextScript]_vars

(* ---- runs in which insert and search may also be handed None ---- *)

InsertNone == InsertCall(None)

SearchNone == SearchCall(None)

NextNull ==
    \/ Insert
    \/ InsertNone
    \/ SearchNone

SpecNull == Init /\ [][NextNull]_vars

(* ---- BTreeNode's methods called directly on the root node, as the test-suite ---- *)
(* ---- does when it mounts a tree by hand                                      ---- *)

\* get_key(i): self._keys[i]
get_key(h, n, i) ==
    IF PyIndexOK(h[n].keys, i) THEN [out |-> <<PyGet(h[n].keys, i)>>, err |-> NoErr]
    ELSE [out |-> <<>>, err |-> "IndexError"]

\* get_child(i): self._children[i]
get_child(h, n, i) ==
    IF PyIndexOK(h[n].children, i) THEN [out |-> <<PyGet(h[n].children, i)>>, err |-> NoErr]
    ELSE [out |-> <<>>, err |-> "IndexError"]

\* insert_child(child, i) with its `if child is None: raise TypeError`
insert_child_checked(h, n, child, i) ==
    IF child = NoNode THEN Ended(h, "TypeError")
    ELSE Ended(insert_child(h, n, child, i), NoErr)

\* insert_child(child) with its `if child is None: raise TypeError`
append_child_checked(h, n, child) ==
    IF child = NoNode THEN Ended(h, "TypeError")
    ELSE Ended(append_child(h, n, child), NoErr)

\* indices handed to the node's methods: in range, negative, and past the end
NodeIndexes == (0 - MaxNodeLen - 1)..(MaxNodeLen + 1)

\* tree._root = BTreeNode(): a node with no keys, no children, is_leaf False
InitNode ==
    /\ t \in Degrees
    /\ heap = <<NewNode(<<>>, "False")>>
    /\ root = 1
    /\ inserted = EmptyBag
    /\ last = NoCall

NodeCall(op, arg, i, res) ==
    /\ heap' = res.heap
    /\ last' = [NoCall EXCEPT !.op = op, !.key = arg, !.node = root, !.idx = i,
                              !.err = res.err]
    /\ UNCHANGED <<t, root, inserted>>

\* tree.root.insert_key(key, i)
NodeInsertKeyAt ==
    /\ n_keys(heap, root) < MaxNodeLen
    /\ \E key \in DeepKeys \cup {None} : \E i \in NodeIndexes :
          NodeCall("insert_key_at", key, i, insert_key(heap, root, key, i))

\* tree.root.insert_key(key)
NodeAppendKey ==
    /\ n_keys(heap, root) < MaxNodeLen
    /\ \E key \in DeepKeys \cup {None} :
          NodeCall("insert_key", key, 0, append_key(heap, root, key))

\* tree.root.insert_child(child, i), child a new BTreeNode(is_leaf=True) or None
NodeInsertChildAt ==
    /\ n_children(heap, root) < MaxNodeLen
    /\ \E i \in NodeIndexes :
          \/ NodeCall("insert_child_at", Len(heap) + 1, i,
                      insert_child_checked(Append(heap, NewNode(<<>>, "True")),
                                           root, Len(heap) + 1, i))
          \/ NodeCall("insert_child_at", NoNode, i,
                      insert_child_checked(heap, root, NoNode, i))

\* tree.root.insert_child(child), child a new BTreeNode(is_leaf=True) or None
NodeAppendChild ==
    /\ n_children(heap, root) < MaxNodeLen
    /\ \/ NodeCall("insert_child", Len(heap) + 1, 0,
                    append_child_checked(Append(heap, NewNode(<<>>, "True")),
                                         root, Len(heap) + 1))
       \/ NodeCall("insert_child", NoNode, 0, append_child_checked(heap, root, NoNode))

NodeRead(op, i, res) ==
    /\ last' = [NoCall EXCEPT !.op = op, !.node = root, !.idx = i,
                              !.err = res.err, !.out = res.out]
    /\ UNCHANGED <<t, heap, root, inserted>>

\* tree.root.get_key(i)
NodeGetKey == \E i \in NodeIndexes : NodeRead("get_key", i, get_key(heap, root, i))

\* tree.root.get_child(i)
NodeGetChild == \E i \in NodeIndexes : NodeRead("get_child", i, get_child(heap, root, i))

NextNode ==
    \/ NodeInsertKeyAt
    \/ NodeAppendKey
    \/ NodeInsertChildAt
    \/ NodeAppendChild
    \/ NodeGetKey
    \/ NodeGetChild

SpecNode == InitNode /\ [][NextNode]_vars

(* ---- _split_child on trees mounted by hand, as the test-suite mounts its tree ---- *)

\* the keys lo + step, lo + 2 * step, ..., lo + n * step
MountKeys(lo, step, n) == [k \in 1..n |-> lo + k * step]

\* the node identities first + 1, ..., first + n
MountIds(first, n) == [k \in 1..n |-> first + k]

\* node number id of a well-formed tree of degree tt: node 1 is the parent with m
\* keys over m + 1 full children (nodes 2..m + 2); when `internal`, each child has
\* 2 * tt children of its own, leaves that hold tt - 1 keys each
MountedNode(tt, m, internal, id) ==
    IF id = 1
    THEN [keys |-> MountKeys(0, 100, m), children |-> MountIds(1, m + 1),
          is_leaf |-> "False"]
    ELSE IF id <= m + 2
    THEN [keys |-> MountKeys(100 * (id - 2), 10, 2 * tt - 1),
          children |-> IF internal
                       THEN MountIds(m + 2 + (id - 2) * 2 * tt, 2 * tt)
                       ELSE <<>>,
          is_leaf |-> IF internal THEN "False" ELSE "True"]
    ELSE LET j == (id - m - 3) \div (2 * tt)
             g == (id - m - 3) % (2 * tt)
         IN  [keys |-> MountKeys(100 * j + 10 * g, 1, tt - 1), children |-> <<>>,
              is_leaf |-> "True"]

MountedTree(tt, m, internal) ==
    [id \in 1..(m + 2 + (IF internal THEN (m + 1) * 2 * tt ELSE 0))
        |-> MountedNode(tt, m, internal, id)]

InitSplit ==
    /\ t \in Degrees
    /\ \E m \in 0..MaxMountKeys : \E internal \in BOOLEAN :
          heap = MountedTree(t, m, internal)
    /\ root = 1
    /\ inserted = EmptyBag
    /\ last = NoCall

\* tree._split_child(tree.root, i), the root not full and its child i full
SplitChild ==
    /\ ~is_full(heap, root)
    /\ \E i \in 0..(n_children(heap, root) - 1) :
          /\ is_full(heap, PyGet(heap[root].children, i))
          /\ heap' = _split_child(heap, root, i).heap
          /\ last' = [NoCall EXCEPT !.op = "split_child", !.node = root, !.idx = i,
                                    !.err = _split_child(heap, root, i).err]
    /\ UNCHANGED <<t, root, inserted>>

NextSplit ==
    \/ SplitChild
    \/ Traverse

SpecSplit == InitSplit /\ [][NextSplit]_vars

(* ------------------- vocabulary of the properties --------------------- *)

\* the nodes of the subtree under n, n included
RECURSIVE Subtree(_, _)
Subtree(h, n) == {n} \cup UNION {Subtree(h, h[n].children[c]) : c \in DOMAIN h[n].children}

\* the nodes of the tree
TreeNodes == IF root = NoNode THEN {} ELSE Subtree(heap, root)

\* the keys stored anywhere in the subtree under n
SubtreeKeys(h, n) == UNION {Range(h[m].keys) : m \in Subtree(h, n)}

\* the depths, counted from n at depth d, of the nodes without children under n
RECURSIVE LeafDepths(_, _, _)
LeafDepths(h, n, d) ==
    IF h[n].children = <<>> THEN {d}
    ELSE UNION {LeafDepths(h, h[n].children[c], d + 1) : c \in DOMAIN h[n].children}

NonDecreasing(s) == \A i \in 1..(Len(s) - 1) : s[i] <= s[i + 1]

\* the subtree under n as a value: keys, subtrees, and what is_leaf() returns
RECURSIVE Shape(_, _)
Shape(h, n) ==
    [keys |-> h[n].keys,
     kids |-> [c \in DOMAIN h[n].children |-> Shape(h, h[n].children[c])],
     leaf |-> is_leaf_call(h, n)]

Leaf(ks) == [keys |-> ks, kids |-> <<>>, leaf |-> "True"]
Inner(ks, kids) == [keys |-> ks, kids |-> kids, leaf |-> "False"]

\* the subtree under n as a value, keys and subtrees only
RECURSIVE KeyShape(_, _)
KeyShape(h, n) ==
    [keys |-> h[n].keys,
     kids |-> [c \in DOMAIN h[n].children |-> KeyShape(h, h[n].children[c])]]

KeyNode(ks, kids) == [keys |-> ks, kids |-> kids]

DistinctKeys == \A k \in BagToSet(inserted) : CopiesIn(k, inserted) = 1

(* ----------------------------- properties ----------------------------- *)

\* C1: after any sequence of inserts, the in-order traversal from the root visits
\* the keys in non-decreasing order.
InOrderNonDecreasing == last.op = "in_order" => NonDecreasing(last.out)

\* C2: search(k) for a key k that was inserted returns a node of the tree and an
\* index at which that node stores k.
SearchFindsInserted ==
    (last.op = "search" /\ BagIn(last.key, inserted))
        => /\ last.found
           /\ last.node \in TreeNodes
           /\ PyIndexOK(heap[last.node].keys, last.idx)
           /\ PyGet(heap[last.node].keys, last.idx) = last.key

\* C3: search(k) for a non-null key k that was never inserted returns None: it
\* neither returns a (node, index) pair nor raises.
SearchMissesAbsent ==
    (last.op = "search" /\ ~BagIn(last.key, inserted))
        => (~last.found /\ last.err = NoErr)

\* C3 happens: a search, in a tree whose root has children, for a key never
\* inserted that lies strictly between two inserted keys, came back not-found.
SearchMissesAbsentReached ==
    /\ last.op = "search"
    /\ ~BagIn(last.key, inserted)
    /\ root # NoNode
    /\ heap[root].children # <<>>
    /\ \E a, b \in BagToSet(inserted) : a < last.key /\ last.key < b
    /\ ~last.found

\* C4: after any sequence of inserts, every node without children is at the same
\* depth from the root.
LeavesAtOneDepth == root # NoNode => Cardinality(LeafDepths(heap, root, 0)) = 1

\* C5: every non-root node holds between t-1 and 2t-1 keys, and every non-root node
\* with children has between t and 2t children and exactly one more child than keys.
BoundedOccupancy ==
    \A n \in TreeNodes \ {root} :
        /\ min_keys <= n_keys(heap, n)
        /\ n_keys(heap, n) <= max_keys
        /\ heap[n].children # <<>>
              => /\ min_children <= n_children(heap, n)
                 /\ n_children(heap, n) <= max_children
                 /\ n_children(heap, n) = n_keys(heap, n) + 1

\* C6: with pairwise distinct keys inserted, every node with children separates them:
\* every key under children[i] is < keys[i] and every key under children[i+1] is > keys[i].
SeparatorProperty ==
    DistinctKeys =>
        \A n \in TreeNodes : \A i \in 1..n_keys(heap, n) :
            /\ i \in DOMAIN heap[n].children
                  => \A k \in SubtreeKeys(heap, heap[n].children[i]) : k < heap[n].keys[i]
            /\ (i + 1) \in DOMAIN heap[n].children
                  => \A k \in SubtreeKeys(heap, heap[n].children[i + 1]) : k > heap[n].keys[i]

\* C7: the multiset of keys the in-order traversal yields equals the multiset of
\* keys handed to the tree (constructor seed and insert calls, duplicates included).
TraversalYieldsInserted == last.op = "in_order" => SeqBag(last.out) = inserted

\* C8: t = 2 and 8, 9, 10, 11, 15, 16, 17, 18, 20, 23 inserted in that order give
\* root [11] over [9] (leaves [8], [10]) and [16, 18] (leaves [15], [17], [20, 23]),
\* the three upper nodes reporting is_leaf false and the five bottom ones true.
Scenario1Tree ==
    (t = 2 /\ inserted = SeqBag(Scenario1))
        => /\ root # NoNode
           /\ Shape(heap, root) =
                 Inner(<<11>>,
                       <<Inner(<<9>>, <<Leaf(<<8>>), Leaf(<<10>>)>>),
                         Inner(<<16, 18>>,
                               <<Leaf(<<15>>), Leaf(<<17>>), Leaf(<<20, 23>>)>>)>>)

NullInsertRejected ==
    [][(last'.op = "insert" /\ last'.key = None)
          => (last'.err # NoErr /\ heap' = heap /\ root' = root)]_vars

\* C11: search(None) fails with an error in every tree state, the tree without a
\* root included; it never comes back not-found and never returns a match.
NullSearchRejected ==
    (last.op = "search" /\ last.key = None) => (last.err # NoErr /\ ~last.found)

\* C12: on a tree that has no root, search(k) for a non-null key k returns None
\* and raises nothing.
SearchOnEmptyMisses ==
    (last.op = "search" /\ last.key # None /\ root = NoNode)
        => (~last.found /\ last.err = NoErr)

\* C12 happens: a search for a non-null key was made on a tree without a root.
SearchOnEmptyReached ==
    last.op = "search" /\ last.key \in Keys /\ root = NoNode /\ heap = <<>>

\* C13: get_key(i) and get_child(i) raise IndexError for every i outside
\* [0, n_keys) and [0, n_children), negative i included.
ReadsOutsideBoundsRejected ==
    /\ (last.op = "get_key" /\ ~(0 <= last.idx /\ last.idx < n_keys(heap, last.node)))
          => last.err = "IndexError"
    /\ (last.op = "get_child" /\ ~(0 <= last.idx /\ last.idx < n_children(heap, last.node)))
          => last.err = "IndexError"

\* `new` is `old` with x at position i (counted from 0) and every later element
\* one place to the right
InsertedAt(old, new, i, x) ==
    /\ Len(new) = Len(old) + 1
    /\ new[i + 1] = x
    /\ \A j \in 1..i : new[j] = old[j]
    /\ \A j \in (i + 1)..Len(old) : new[j + 1] = old[j]

ValidPosition(s, i) == 0 <= i /\ i <= Len(s)

\* a call that raised TypeError and left the node's keys and children alone
RejectedUnchanged(n) ==
    /\ last'.err = "TypeError"
    /\ heap'[n].keys = heap[n].keys
    /\ heap'[n].children = heap[n].children

KeyInsertContract(n) ==
    /\ last'.op = "insert_key_at" /\ last'.key # None
          => /\ last'.err = NoErr
             /\ ValidPosition(heap[n].keys, last'.idx)
                   => InsertedAt(heap[n].keys, heap'[n].keys, last'.idx, last'.key)
    /\ last'.op = "insert_key" /\ last'.key # None
          => /\ last'.err = NoErr
             /\ heap'[n].keys = Append(heap[n].keys, last'.key)

ChildInsertContract(n) ==
    /\ last'.op = "insert_child_at" /\ last'.key # NoNode
          => /\ last'.err = NoErr
             /\ ValidPosition(heap[n].children, last'.idx)
                   => InsertedAt(heap[n].children, heap'[n].children, last'.idx, last'.key)
    /\ last'.op = "insert_child" /\ last'.key # NoNode
          => /\ last'.err = NoErr
             /\ heap'[n].children = Append(heap[n].children, last'.key)

SearchReadOnly ==
    [][last'.op = "search" => (heap' = heap /\ root' = root /\ t' = t)]_vars

\* C15 happens: a search found its key in a tree whose root has children.
SearchReadOnlyReached ==
    /\ last.op = "search"
    /\ last.found
    /\ root # NoNode
    /\ heap[root].children # <<>>

\* C16: after any sequence of inserts, is_leaf() is True for exactly the nodes
\* without children: True for every node that has none, False for every node that
\* has some.
LeafFlagMatchesChildren ==
    \A n \in TreeNodes :
        /\ heap[n].children = <<>> => is_leaf_call(heap, n) = "True"
        /\ heap[n].children # <<>> => is_leaf_call(heap, n) = "False"

\* what _split_child(p, i) is to do to the child c at children[i] and to the new
\* right node r
SplitHalves(c, r) ==
    /\ heap'[c].keys = SubSeq(heap[c].keys, 1, t - 1)
    /\ heap'[r].keys = SubSeq(heap[c].keys, t + 1, 2 * t - 1)
    /\ heap[c].children # <<>>
          => /\ heap'[c].children = SubSeq(heap[c].children, 1, t)
             /\ heap'[r].children = SubSeq(heap[c].children, t + 1, 2 * t)

\* what _split_child(p, i) is to do to the parent p
SplitParent(p, i, c, r) ==
    /\ InsertedAt(heap[p].keys, heap'[p].keys, i, heap[c].keys[t])
    /\ InsertedAt(heap[p].children, heap'[p].children, i + 1, r)

\* C17: _split_child(parent, i) on a full child: the child keeps keys [0, t-1) and,
\* if it has children, children [0, t); a new right node gets keys [t, 2t-1) and
\* children [t, 2t); the median goes into parent.keys at i and the right node into
\* parent.children at i + 1, the parent's other keys and children keeping their order.
SplitChildContract ==
    [][last'.op = "split_child"
          => /\ last'.err = NoErr
             /\ Len(heap') = Len(heap) + 1
             /\ SplitHalves(PyGet(heap[last'.node].children, last'.idx), Len(heap'))
             /\ SplitParent(last'.node, last'.idx,
                            PyGet(heap[last'.node].children, last'.idx), Len(heap'))]_vars

\* C18: no node ever holds more than 2t-1 keys, and every node _insert_non_full is
\* entered with during an insert (the root after the preventive split included)
\* holds fewer than 2t-1 keys at that moment.
InsertKeepsNodesInBounds ==
    /\ [](\A n \in DOMAIN heap : n_keys(heap, n) <= 2 * t - 1)
    /\ [][last'.op = "insert"
            => \A k \in DOMAIN entered(heap, root, last'.key) :
                   entered(heap, root, last'.key)[k] < 2 * t - 1]_vars

\* C18 happens: an insert met a full root, split it, and went into the new root,
\* which now holds the promoted median and the inserted key.
InsertIntoSplitRoot ==
    /\ last.op = "insert"
    /\ last.err = NoErr
    /\ root # NoNode
    /\ n_children(heap, root) = 2
    /\ n_keys(heap, root) = 2
    /\ last.key \in Range(heap[root].keys)

\* the number of edges from n down to its deepest node
Height(h, n) ==
    CHOOSE d \in LeafDepths(h, n, 0) : \A e \in LeafDepths(h, n, 0) : e <= d

\* the heap between insert's split of the old root r and the placing of the key:
\* a new root over r, r split
AfterRootSplit(h, r) ==
    _split_child(append_child(Append(h, NewNode(<<>>, "False")), Len(h) + 1, r),
                 Len(h) + 1, 0).heap

\* the new root holds one key, the old root's median, over the old root and one
\* new node
FreshRoot(mid, new_root, r, median) ==
    /\ mid[new_root].keys = <<median>>
    /\ n_children(mid, new_root) = 2
    /\ mid[new_root].children[1] = r
    /\ mid[new_root].children[2] \notin {r, new_root}

\* C19: an insert on a tree that has a root replaces the root reference and makes
\* the tree one level higher exactly when the root held 2t-1 keys when the call
\* began; the new root, after the split and before the key is placed, holds one key,
\* the old root's median, and two children. Otherwise root reference and height stay.
RootReplacedIffFull ==
    [][(last'.op = "insert" /\ root # NoNode)
          => IF n_keys(heap, root) = 2 * t - 1
             THEN /\ root' \notin DOMAIN heap
                  /\ Height(heap', root') = Height(heap, root) + 1
                  /\ FreshRoot(AfterRootSplit(heap, root), root', root, heap[root].keys[t])
             ELSE /\ root' = root
                  /\ Height(heap', root') = Height(heap, root)]_vars

\* C19 happens: the root has been replaced twice, the second time by the insert
\* just made; the tree is two levels high.
RootReplacedTwice ==
    /\ last.op = "insert"
    /\ root # NoNode
    /\ Height(heap, root) = 2
    /\ n_keys(heap, root) = 2
    /\ root = Len(heap) - 1

\* node r holds exactly the key k, has no children, and is_leaf() is True
LoneLeaf(h, r, k) ==
    /\ r # NoNode
    /\ h[r].keys = <<k>>
    /\ h[r].children = <<>>
    /\ is_leaf_call(h, r) = "True"

\* C20: a tree constructed without a seed has no root; a tree constructed with a
\* seed k, and a rootless tree after insert(k), has a root that is a leaf holding
\* exactly k and no children; that first insert builds one node and splits nothing.
FirstKeyMakesLeafRoot ==
    /\ IF inserted = EmptyBag
       THEN root = NoNode /\ heap = <<>>
       ELSE \E k \in Keys :
               inserted = SetToBag({k}) /\ LoneLeaf(heap, root, k) /\ Len(heap) = 1
    /\ [][(last'.op = "insert" /\ root = NoNode)
            => (LoneLeaf(heap', root', last'.key) /\ Len(heap') = Len(heap) + 1)]_vars

\* C20 happens: the first key has just been inserted into a tree constructed
\* without a seed.
FirstInsertDone ==
    /\ last.op = "insert"
    /\ last.key \in Keys
    /\ inserted = SetToBag({last.key})
    /\ Len(heap) = 1
    /\ root = 1

====
